---- MODULE Spec2Model ----
(***************************************************************************)
(* Model of SandboxRunner (static/js/sandbox.js): one controller bound to  *)
(* a preview container, the browser objects it touches (container          *)
(* children, pending timers, window message listeners, iframe load         *)
(* events) and the operations run / stop / cleanup / focus / onReady plus  *)
(* the asynchronous callbacks (iframe onload, window message, guard        *)
(* timer).                                                                 *)
(***************************************************************************)
EXTENDS Integers, Sequences, FiniteSets, TLC

\* ------------------------------------------------------------------ bounds
MaxRuns == 2
MaxCallbacks == 2
MaxCodeLen == 2
MaxInputRuns == 2
MaxExtraFrames == 2
MaxSnippetLen == 5
MaxEarlyFrames == 2

\* --------------------------------------------------------------- constants
Null == 0
Element == 1
DefaultExecutionTime == 5000
WebGLExecutionTime == 15000
maxFrames == 100000

\* A code string is a sequence of symbols: " ", "<", "x" are characters,
\* "webgl" stands for the five-letter marker taken as one symbol (the other
\* symbols cannot form it).
\* The code strings passed to run(): empty, whitespace only, a snippet, a
\* snippet with the marker, markup, markup after leading whitespace.
Codes ==
    {<<>>, <<" ">>, <<"x">>, <<"x", "webgl">>, <<"<", "x">>, <<" ", "<">>}
Languages == {"p5js", "html"}

\* Arguments of stop(reason): undefined, the empty string, a message.
Undefined == "undefined"
TimeoutReason == "Execution timeout (infinite loop protection)"
Reasons == {Undefined, "", "Stopped"}

\* Pending-ready callbacks: the closure queued by focus(), and callbacks of
\* the caller of onReady() that return normally or throw.
FocusClosure == "doFocus"
Callbacks == {"cbOk", "cbThrow"}

\* Values of event.data carried by a window message.
MessageData == {"nodata", "error", "firstFrame", "setupComplete", "other"}

\* ------------------------------------------------------------------- state
VARIABLES
    container,        \* this.container: Element or Null (element not found)
    iframe,           \* this.iframe: id of the iframe object, or Null
    timeoutId,        \* this.config.timeoutId
    maxExecutionTime, \* this.config.maxExecutionTime
    isWebGL,          \* this.config.isWebGL
    loaded,           \* this.loaded
    onLoadCallbacks,  \* this.onLoadCallbacks
    messageHandler,   \* this._messageHandler: id of the bound function, or Null
    children,         \* child nodes of the container element
    timers,           \* timers armed with setTimeout and not fired/cleared
    listeners,        \* 'message' listeners attached to window
    loading,          \* iframes in the document whose load event is pending
    focused,          \* iframe holding input focus, or Null
    srcdoc,           \* srcdoc of this.iframe (<<>> when there is none)
    runs,             \* number of run() calls made so far
    threw,            \* the last operation ended with an exception
    invoked,          \* caller callbacks invoked during the last operation
    observed,         \* what each of them found: the ready flag, the focus
    logged,           \* console line written by handleMessage in the last step
    dropped,          \* callbacks the last operation discarded uninvoked
    lastOp,           \* the last operation or event
    sender,           \* iframe whose artifact posted the message just
                      \* delivered, where the model follows it; else Null
    lastCode,         \* code argument of the last run()
    lastLanguage,     \* language argument of the last run()
    firstFrameSeen,   \* a firstFrame message was handled for this.iframe
    superseded,       \* controllers the workspace has replaced by a new one
                      \* while their guard or listener was still in place
    shim,             \* script state of the artifact in this.iframe: frame
                      \* counter, first-frame flag, wrapped draw hook, and
                      \* what the last draw call did (body run, messages
                      \* posted) with counts of limit errors and noLoop calls
    localStorage,     \* the items auth_token and current_user
    href,             \* window.location.href
    pending,          \* fetch requests of auth.js awaiting their answer
    last              \* the last step of login, logout or apiRequest

obj == <<container, iframe, timeoutId, maxExecutionTime, isWebGL, loaded,
         onLoadCallbacks, messageHandler>>
browser == <<children, timers, listeners, loading, focused, srcdoc>>
trace == <<runs, threw, invoked, observed, logged, dropped, lastOp, sender,
           lastCode, lastLanguage, firstFrameSeen>>
page == <<localStorage, href, pending, last>>
vars == <<obj, browser, trace, superseded, shim, page>>

\* The controller and the browser objects it acts on, as one record that the
\* methods below transform.
Self ==
    [container |-> container, iframe |-> iframe, timeoutId |-> timeoutId,
     maxExecutionTime |-> maxExecutionTime, isWebGL |-> isWebGL,
     loaded |-> loaded, onLoadCallbacks |-> onLoadCallbacks,
     messageHandler |-> messageHandler, children |-> children,
     timers |-> timers, listeners |-> listeners, loading |-> loading,
     focused |-> focused, srcdoc |-> srcdoc, runs |-> runs, shim |-> shim,
     threw |-> FALSE, invoked |-> <<>>, observed |-> <<>>, logged |-> "none",
     dropped |-> <<>>]

InstallSelf(s) ==
    /\ container' = s.container
    /\ iframe' = s.iframe
    /\ timeoutId' = s.timeoutId
    /\ maxExecutionTime' = s.maxExecutionTime
    /\ isWebGL' = s.isWebGL
    /\ loaded' = s.loaded
    /\ onLoadCallbacks' = s.onLoadCallbacks
    /\ messageHandler' = s.messageHandler
    /\ children' = s.children
    /\ timers' = s.timers
    /\ listeners' = s.listeners
    /\ loading' = s.loading
    /\ focused' = s.focused
    /\ srcdoc' = s.srcdoc
    /\ runs' = s.runs
    /\ threw' = s.threw
    /\ invoked' = s.invoked
    /\ observed' = s.observed
    /\ logged' = s.logged
    /\ dropped' = s.dropped
    /\ shim' = s.shim
    /\ UNCHANGED page

\* A step of the one controller: no controller is replaced.
Install(s) == InstallSelf(s) /\ UNCHANGED superseded

\* ------------------------------------------------------------ DOM helpers
Node(tag, id, text) == [tag |-> tag, id |-> id, text |-> text]
IframeNode(id) == Node("iframe", id, "")
Template == Node("template", Null, "")
Placeholder == Node("placeholder", Null, "Your project preview will appear here.")
Diagnostic(reason) == Node("diagnostic", Null, reason)

\* No user draw function is wrapped (null / undefined).
NoDraw == "null"

\* No artifact with a shim is loaded.
NoShim ==
    [frame |-> Null, mechanism |-> "none", broken |-> FALSE,
     setupHook |-> "none", hook |-> "none",
     frameCount |-> 0, firstFrameRendered |-> FALSE,
     userDraw |-> NoDraw, ranBody |-> FALSE, posted |-> <<>>,
     limitErrors |-> 0, noLoops |-> 0, result |-> "none",
     escaped |-> FALSE, hung |-> FALSE]

\* An artifact whose shim starts from counters carried over by the builder.
NewShim_carried(id) ==
    [NoShim EXCEPT !.frame = id, !.frameCount = 1, !.firstFrameRendered = TRUE]

\* The artifact handed to a new iframe, its script not yet evaluated: let
\* firstFrameRendered = false, let frameCount = 0.
NewShim(id) == [NoShim EXCEPT !.frame = id]

FramesOf(nodes) == {n.id : n \in {m \in nodes : m.tag = "iframe"}}

\* The container's children become `nodes`: an iframe that leaves the
\* document loses its browsing context, its pending load event and the focus.
SetChildren(s, nodes) ==
    [s EXCEPT !.children = nodes,
              !.loading = @ \cap FramesOf(nodes),
              !.focused = IF @ \in FramesOf(nodes) THEN @ ELSE Null,
              !.shim = IF @.frame \in FramesOf(nodes) THEN @ ELSE NoShim]

\* ---------------------------------------------------------- string helpers
RECURSIVE TrimStart(_)
TrimStart(str) ==
    IF str # <<>> /\ Head(str) = " " THEN TrimStart(Tail(str)) ELSE str

RECURSIVE TrimEnd(_)
TrimEnd(str) ==
    IF str # <<>> /\ str[Len(str)] = " "
    THEN TrimEnd(SubSeq(str, 1, Len(str) - 1)) ELSE str

Trim(str) == TrimEnd(TrimStart(str))

StartsWith(str, prefix) ==
    /\ Len(str) >= Len(prefix)
    /\ SubSeq(str, 1, Len(prefix)) = prefix

Includes(str, sym) == \E i \in 1..Len(str) : str[i] = sym

Truthy(reason) == reason # Undefined /\ reason # ""

\* ------------------------------------------------- auth.js: values
\* getItem() of a key that is not stored.
NoItem == "null"

LoginPage == "/lab/login"
ProjectsPage == "/lab/projects"
NetworkErrorMsg == "Network error. Please try again."

\* Tokens and users the server hands out, and the error text of a refusal.
Tokens == {"tok1", "tok2"}
Users == {"ada"}
RefusedMsg == "Invalid username or PIN"

\* At most MaxPending requests of the page are awaiting their answer.
MaxPending == 2

\* The body of an answer: text that parses as JSON (json) into an object
\* with these fields, or text that does not parse.
Body(json, success, token, user, error) ==
    [json |-> json, success |-> success, token |-> token, user |-> user,
     error |-> error]
NoBody == Body(FALSE, FALSE, Undefined, Undefined, Undefined)

\* What fetch() settles with: a rejection (network failure), or a response
\* with a status and a body.
NoResponse == [kind |-> "none", status |-> 0, body |-> NoBody]
Rejected == [kind |-> "rejects", status |-> 0, body |-> NoBody]
Answer(status, body) == [kind |-> "response", status |-> status, body |-> body]

LoginResponses ==
    {Rejected, Answer(500, NoBody)}
    \cup {Answer(200, Body(TRUE, TRUE, t, u, Undefined)) : t \in Tokens, u \in Users}
    \cup {Answer(401, Body(TRUE, FALSE, Undefined, Undefined, e)) :
             e \in {RefusedMsg, Undefined}}
LogoutResponses ==
    {Rejected, Answer(500, NoBody),
     Answer(200, Body(TRUE, TRUE, Undefined, Undefined, Undefined))}
ApiResponses ==
    {Rejected, Answer(500, NoBody),
     Answer(200, Body(TRUE, TRUE, Undefined, Undefined, Undefined)),
     Answer(401, Body(TRUE, FALSE, Undefined, Undefined, "Unauthorized"))}

\* What a call gave its caller: still awaiting, a value (an object with
\* success and error, parsed data, null, undefined), or an exception.
Result(kind, success, error) == [kind |-> kind, success |-> success, error |-> error]
Awaiting == Result("awaiting", FALSE, Undefined)
ReturnedNull == Result("null", FALSE, Undefined)
ReturnedUndefined == Result("undefined", FALSE, Undefined)
ReturnedData == Result("data", FALSE, Undefined)
Raised == Result("raised", FALSE, Undefined)

Request(fn, token) == [fn |-> fn, token |-> token]
Requests == [fn : {"login", "logout", "apiRequest"}, token : Tokens \cup {NoItem}]

\* No function of auth.js has been called.
NoCall ==
    [fn |-> "none", phase |-> "none", sent |-> FALSE, redirect |-> FALSE,
     response |-> NoResponse, returned |-> ReturnedUndefined]

\* ------------------------------------------------------- SandboxRunner
\* constructor(containerId): the container may be missing from the page.
Init ==
    /\ container \in {Element, Null}
    /\ iframe = Null
    /\ timeoutId = Null
    /\ maxExecutionTime = DefaultExecutionTime
    /\ isWebGL = FALSE
    /\ loaded = FALSE
    /\ onLoadCallbacks = <<>>
    /\ messageHandler = Null
    /\ children = IF container = Null THEN {} ELSE {Template}
    /\ timers = {}
    /\ listeners = {}
    /\ loading = {}
    /\ focused = Null
    /\ srcdoc = <<>>
    /\ runs = 0
    /\ threw = FALSE
    /\ invoked = <<>>
    /\ observed = <<>>
    /\ logged = "none"
    /\ dropped = <<>>
    /\ lastOp = "new"
    /\ sender = Null
    /\ lastCode = <<>>
    /\ lastLanguage = "p5js"
    /\ firstFrameSeen = FALSE
    /\ superseded = {}
    /\ shim = NoShim
    /\ localStorage = [auth_token |-> NoItem, current_user |-> NoItem]
    /\ href = LoginPage
    /\ pending = {}
    /\ last = NoCall

\* clearTimeout(id)
clearTimeout(s, id) == [s EXCEPT !.timers = {t \in @ : t.id # id}]

\* stop(reason) that forgets clearTimeout: the handle is dropped, the timer
\* stays armed.
stop_keepsTimer(s, reason) ==
    LET s1 == [s EXCEPT !.timeoutId = Null]
        s2 == IF s1.iframe # Null
              THEN [SetChildren(s1, s1.children \ {IframeNode(s1.iframe)})
                        EXCEPT !.iframe = Null, !.srcdoc = <<>>]
              ELSE s1
        s3 == IF Truthy(reason)
              THEN IF s2.container = Null
                   THEN [s2 EXCEPT !.threw = TRUE]
                   ELSE SetChildren(s2, {Diagnostic(reason)})
              ELSE s2
    IN  IF s3.threw THEN s3
        ELSE IF s3.messageHandler # Null
             THEN [s3 EXCEPT !.listeners = @ \ {s3.messageHandler}]
             ELSE s3

\* stop(reason) that forgets removeEventListener.
stop_keepsListener(s, reason) ==
    LET s1 == IF s.timeoutId # Null
              THEN [clearTimeout(s, s.timeoutId) EXCEPT !.timeoutId = Null]
              ELSE s
        s2 == IF s1.iframe # Null
              THEN [SetChildren(s1, s1.children \ {IframeNode(s1.iframe)})
                        EXCEPT !.iframe = Null, !.srcdoc = <<>>]
              ELSE s1
    IN  IF Truthy(reason)
        THEN IF s2.container = Null
             THEN [s2 EXCEPT !.threw = TRUE]
             ELSE SetChildren(s2, {Diagnostic(reason)})
        ELSE s2

\* stop(reason)
stop(s, reason) ==
    LET s1 == IF s.timeoutId # Null
              THEN [clearTimeout(s, s.timeoutId) EXCEPT !.timeoutId = Null]
              ELSE s
        s2 == IF s1.iframe # Null
              THEN [SetChildren(s1, s1.children \ {IframeNode(s1.iframe)})
                        EXCEPT !.iframe = Null, !.srcdoc = <<>>]
              ELSE s1
        s3 == IF Truthy(reason)
              THEN IF s2.container = Null
                   THEN [s2 EXCEPT !.threw = TRUE]
                   ELSE SetChildren(s2, {Diagnostic(reason)})
              ELSE s2
    IN  IF s3.threw THEN s3
        ELSE IF s3.messageHandler # Null
             THEN [s3 EXCEPT !.listeners = @ \ {s3.messageHandler}]
             ELSE s3

\* cleanup()
cleanup(s) == stop(s, Undefined)

\* _doFocus()
doFocus(s) ==
    IF s.iframe = Null THEN s ELSE [s EXCEPT !.focused = s.iframe]

\* One callback call inside try/catch, recorded in `invoked`: the closure
\* queued by focus() runs _doFocus, a caller's callback returns or throws; an
\* exception is swallowed.
call(s, cb) ==
    LET s1 == [s EXCEPT !.invoked = Append(@, cb),
                        !.observed = Append(@, [loaded |-> s.loaded,
                                                focused |-> s.focused])]
    IN
    IF cb = FocusClosure THEN doFocus(s1) ELSE s1

\* _runOnLoadCallbacks() that takes the callbacks from the end of the queue
\* (pop() instead of shift()).
RECURSIVE runOnLoadCallbacks_lifo(_)
runOnLoadCallbacks_lifo(s) ==
    IF Len(s.onLoadCallbacks) > 0
    THEN runOnLoadCallbacks_lifo(
             call([s EXCEPT !.onLoadCallbacks = SubSeq(@, 1, Len(@) - 1)],
                  s.onLoadCallbacks[Len(s.onLoadCallbacks)]))
    ELSE s

\* _runOnLoadCallbacks() without the try/catch around cb(): the exception of
\* a callback ends the loop and leaves the handler.
RECURSIVE runOnLoadCallbacks_uncaught(_)
runOnLoadCallbacks_uncaught(s) ==
    IF Len(s.onLoadCallbacks) > 0
    THEN LET cb == Head(s.onLoadCallbacks)
             s1 == call([s EXCEPT !.onLoadCallbacks = Tail(@)], cb)
         IN  IF cb = "cbThrow" THEN [s1 EXCEPT !.threw = TRUE]
             ELSE runOnLoadCallbacks_uncaught(s1)
    ELSE s

\* _runOnLoadCallbacks()
RECURSIVE runOnLoadCallbacks(_)
runOnLoadCallbacks(s) ==
    IF Len(s.onLoadCallbacks) > 0
    THEN runOnLoadCallbacks(
             call([s EXCEPT !.onLoadCallbacks = Tail(@)], Head(s.onLoadCallbacks)))
    ELSE s

\* onReady(callback)
onReady(s, cb) ==
    IF s.loaded THEN call(s, cb)
    ELSE [s EXCEPT !.onLoadCallbacks = Append(@, cb)]

\* focus() that does not wait for the load event.
focus_immediate(s) == doFocus(s)

\* focus()
focus(s) == IF s.loaded THEN doFocus(s) ELSE onReady(s, FocusClosure)

\* An onload handler that sets the ready flag after draining the queue.
onload_flagLast(s) == doFocus([runOnLoadCallbacks(s) EXCEPT !.loaded = TRUE])

\* iframe.onload handler installed by runHTML and runP5JS
onload(s) == doFocus(runOnLoadCallbacks([s EXCEPT !.loaded = TRUE]))

\* userCode.replace(/<\/script>/gi, '<\\/script>'): every occurrence of the
\* characters "<", "/", the word script in any letter case, ">" in a row is
\* replaced by <\/script> (the word in lower case), left to right.
ScriptWords == {"script", "SCRIPT"}
RECURSIVE escapeCode(_)
escapeCode(userCode) ==
    IF userCode = <<>> THEN <<>>
    ELSE IF /\ Len(userCode) >= 4
            /\ userCode[1] = "<"
            /\ userCode[2] = "/"
            /\ userCode[3] \in ScriptWords
            /\ userCode[4] = ">"
    THEN <<"<", "\\", "/", "script", ">">>
             \o escapeCode(SubSeq(userCode, 5, Len(userCode)))
    ELSE <<Head(userCode)>> \o escapeCode(Tail(userCode))

\* buildP5SandboxHTML(userCode): library bootstrap and shim, the escaped
\* snippet, the auto-focus tail.
ShimHead == "<!DOCTYPE html>...<script>shim"
ShimTail == "autofocus</script></body></html>"
buildP5SandboxHTML(s, userCode) ==
    <<ShimHead>> \o escapeCode(userCode) \o <<ShimTail>>

\* runHTML(htmlCode) that arms the guard and listens the way runP5JS does.
runHTML_armsGuard(s, htmlCode) ==
    LET id == s.runs
        s1 == [s EXCEPT !.loaded = FALSE, !.onLoadCallbacks = <<>>,
                        !.dropped = s.onLoadCallbacks, !.iframe = id]
        s2 == SetChildren(s1, {IframeNode(id)})
    IN  [s2 EXCEPT !.timers = @ \cup {[id |-> id, ms |-> s.maxExecutionTime]},
                   !.timeoutId = id,
                   !.srcdoc = htmlCode,
                   !.loading = @ \cup {id},
                   !.messageHandler = id,
                   !.listeners = @ \cup {id}]

\* runHTML(htmlCode)
runHTML(s, htmlCode) ==
    LET id == s.runs
        s1 == [s EXCEPT !.loaded = FALSE, !.onLoadCallbacks = <<>>,
                        !.dropped = s.onLoadCallbacks, !.iframe = id]
        s2 == SetChildren(s1, {IframeNode(id)})
    IN  [s2 EXCEPT !.srcdoc = htmlCode, !.loading = @ \cup {id}]

\* runP5JS(userCode) that forgets to arm the guard.
runP5JS_noGuard(s, userCode) ==
    LET id == s.runs
        html == buildP5SandboxHTML(s, userCode)
        s1 == [s EXCEPT !.loaded = FALSE, !.onLoadCallbacks = <<>>,
                        !.dropped = s.onLoadCallbacks, !.iframe = id]
        s2 == SetChildren(s1, {IframeNode(id)})
    IN  [s2 EXCEPT !.srcdoc = html,
                   !.loading = @ \cup {id},
                   !.messageHandler = id,
                   !.listeners = @ \cup {id},
                   !.shim = NewShim(id)]

\* runP5JS(userCode) that keeps the pending callbacks of the previous run.
runP5JS_keepsCallbacks(s, userCode) ==
    LET id == s.runs
        html == buildP5SandboxHTML(s, userCode)
        s1 == [s EXCEPT !.loaded = FALSE, !.iframe = id]
        s2 == SetChildren(s1, {IframeNode(id)})
    IN  [s2 EXCEPT !.timers = @ \cup {[id |-> id, ms |-> s.maxExecutionTime]},
                   !.timeoutId = id,
                   !.srcdoc = html,
                   !.loading = @ \cup {id},
                   !.messageHandler = id,
                   !.listeners = @ \cup {id},
                   !.shim = NewShim(id)]

\* runP5JS(userCode)
runP5JS(s, userCode) ==
    LET id == s.runs
        html == buildP5SandboxHTML(s, userCode)
        s1 == [s EXCEPT !.loaded = FALSE, !.onLoadCallbacks = <<>>,
                        !.dropped = s.onLoadCallbacks, !.iframe = id]
        s2 == SetChildren(s1, {IframeNode(id)})
    IN  [s2 EXCEPT !.timers = @ \cup {[id |-> id, ms |-> s.maxExecutionTime]},
                   !.timeoutId = id,
                   !.srcdoc = html,
                   !.loading = @ \cup {id},
                   !.messageHandler = id,
                   !.listeners = @ \cup {id},
                   !.shim = NewShim(id)]

\* run(code, language) that does not call cleanup() first.
run_noCleanup(s, code, language) ==
    IF s.container = Null THEN s
    ELSE IF code = <<>> \/ Trim(code) = <<>>
    THEN SetChildren(s, {Placeholder})
    ELSE
        LET trimmedCode == Trim(code)
            looksLikeHTML == \/ StartsWith(trimmedCode, <<"<">>)
                             \/ StartsWith(trimmedCode, <<"<", "!">>)
            webgl == Includes(code, "WEBGL") \/ Includes(code, "webgl")
            w == [s EXCEPT !.isWebGL = webgl,
                           !.maxExecutionTime =
                               IF webgl THEN WebGLExecutionTime
                               ELSE DefaultExecutionTime]
        IN  IF language = "html" \/ looksLikeHTML
            THEN runHTML(w, code)
            ELSE runP5JS(w, code)

\* run(code, language) without the container check: a missing container is
\* dereferenced (TypeError on null.innerHTML).
run_noContainerCheck(s, code, language) ==
    LET c == cleanup(s) IN
    IF c.threw THEN c
    ELSE IF c.container = Null THEN [c EXCEPT !.threw = TRUE]
    ELSE IF code = <<>> \/ Trim(code) = <<>>
    THEN SetChildren(c, {Placeholder})
    ELSE
        LET trimmedCode == Trim(code)
            looksLikeHTML == \/ StartsWith(trimmedCode, <<"<">>)
                             \/ StartsWith(trimmedCode, <<"<", "!">>)
            webgl == Includes(code, "WEBGL") \/ Includes(code, "webgl")
            w == [c EXCEPT !.isWebGL = webgl,
                           !.maxExecutionTime =
                               IF webgl THEN WebGLExecutionTime
                               ELSE DefaultExecutionTime]
        IN  IF language = "html" \/ looksLikeHTML
            THEN runHTML(w, code)
            ELSE runP5JS(w, code)

\* run(code, language) that sniffs the markup start on the untrimmed code.
run_sniffsUntrimmed(s, code, language) ==
    LET c == cleanup(s) IN
    IF c.threw THEN c
    ELSE IF c.container = Null THEN c
    ELSE IF code = <<>> \/ Trim(code) = <<>>
    THEN SetChildren(c, {Placeholder})
    ELSE
        LET looksLikeHTML == \/ StartsWith(code, <<"<">>)
                             \/ StartsWith(code, <<"<", "!">>)
            webgl == Includes(code, "WEBGL") \/ Includes(code, "webgl")
            w == [c EXCEPT !.isWebGL = webgl,
                           !.maxExecutionTime =
                               IF webgl THEN WebGLExecutionTime
                               ELSE DefaultExecutionTime]
        IN  IF language = "html" \/ looksLikeHTML
            THEN runHTML(w, code)
            ELSE runP5JS(w, code)

\* run(code, language)
run(s, code, language) ==
    LET c == cleanup(s) IN
    IF c.threw THEN c
    ELSE IF c.container = Null THEN c
    ELSE IF code = <<>> \/ Trim(code) = <<>>
    THEN SetChildren(c, {Placeholder})
    ELSE
        LET trimmedCode == Trim(code)
            looksLikeHTML == \/ StartsWith(trimmedCode, <<"<">>)
                             \/ StartsWith(trimmedCode, <<"<", "!">>)
            webgl == Includes(code, "WEBGL") \/ Includes(code, "webgl")
            w == [c EXCEPT !.isWebGL = webgl,
                           !.maxExecutionTime =
                               IF webgl THEN WebGLExecutionTime
                               ELSE DefaultExecutionTime]
        IN  IF language = "html" \/ looksLikeHTML
            THEN runHTML(w, code)
            ELSE runP5JS(w, code)

\* handleMessage(event) that drops the handle without clearTimeout.
handleMessage_keepsTimer(s, data) ==
    IF data = "nodata" THEN s
    ELSE IF data = "error" THEN [s EXCEPT !.logged = "error"]
    ELSE IF data = "firstFrame"
    THEN [s EXCEPT !.logged = "firstFrame", !.timeoutId = Null]
    ELSE IF data = "setupComplete" THEN [s EXCEPT !.logged = "setupComplete"]
    ELSE s

\* handleMessage(event) that stops the run on an error message.
handleMessage_stopsOnError(s, data) ==
    IF data = "nodata" THEN s
    ELSE IF data = "error" THEN stop([s EXCEPT !.logged = "error"], "Sandbox error")
    ELSE IF data = "firstFrame"
    THEN LET s1 == [s EXCEPT !.logged = "firstFrame"] IN
         IF s1.timeoutId # Null
         THEN [clearTimeout(s1, s1.timeoutId) EXCEPT !.timeoutId = Null]
         ELSE s1
    ELSE IF data = "setupComplete" THEN [s EXCEPT !.logged = "setupComplete"]
    ELSE s

\* handleMessage(event)
handleMessage(s, data) ==
    IF data = "nodata" THEN s
    ELSE IF data = "error" THEN [s EXCEPT !.logged = "error"]
    ELSE IF data = "firstFrame"
    THEN LET s1 == [s EXCEPT !.logged = "firstFrame"] IN
         IF s1.timeoutId # Null
         THEN [clearTimeout(s1, s1.timeoutId) EXCEPT !.timeoutId = Null]
         ELSE s1
    ELSE IF data = "setupComplete" THEN [s EXCEPT !.logged = "setupComplete"]
    ELSE s

\* A guard callback that calls stop() without a reason.
timeoutCallback_noReason(s) == stop(s, Undefined)

\* The guard's callback: () => this.stop('Execution timeout ...')
timeoutCallback(s) == stop(s, TimeoutReason)

\* ------------------------------------------------------------------ actions
Called(op) ==
    /\ lastOp' = op
    /\ sender' = Null
    /\ UNCHANGED <<lastCode, lastLanguage>>

Run(code, language) ==
    /\ runs < MaxRuns
    /\ Install(run([Self EXCEPT !.runs = @ + 1], code, language))
    /\ lastOp' = "run"
    /\ sender' = Null
    /\ lastCode' = code
    /\ lastLanguage' = language
    /\ firstFrameSeen' = FALSE

Stop(reason) ==
    /\ Install(stop(Self, reason))
    /\ Called("stop")
    /\ firstFrameSeen' = FALSE

Cleanup ==
    /\ Install(cleanup(Self))
    /\ Called("cleanup")
    /\ firstFrameSeen' = FALSE

Focus ==
    /\ loaded \/ Len(onLoadCallbacks) < MaxCallbacks
    /\ Install(focus(Self))
    /\ Called("focus")
    /\ UNCHANGED firstFrameSeen

OnReady(cb) ==
    /\ loaded \/ Len(onLoadCallbacks) < MaxCallbacks
    /\ Install(onReady(Self, cb))
    /\ Called("onReady")
    /\ UNCHANGED firstFrameSeen

\* The load event of an iframe that is in the document.
Load(id) ==
    /\ id \in loading
    /\ Install(onload([Self EXCEPT !.loading = @ \ {id}]))
    /\ Called("load")
    /\ UNCHANGED firstFrameSeen

\* A message event on window: every attached listener is handleMessage
\* bound to this controller.
Message(data) ==
    /\ Install(IF listeners # {} THEN handleMessage(Self, data) ELSE Self)
    /\ Called("message")
    /\ firstFrameSeen' = (firstFrameSeen \/
                           (listeners # {} /\ data = "firstFrame" /\ iframe # Null))

\* An armed guard timer fires.
Timeout(t) ==
    /\ t \in timers
    /\ Install(timeoutCallback([Self EXCEPT !.timers = @ \ {t}]))
    /\ Called("timeout")
    /\ firstFrameSeen' = FALSE

RunCalled == \E code \in Codes, language \in Languages : Run(code, language)
StopCalled == \E reason \in Reasons : Stop(reason)
OnReadyCalled == \E cb \in Callbacks : OnReady(cb)
LoadFires == \E id \in 1..MaxRuns : Load(id)
MessageArrives == \E data \in MessageData : Message(data)
TimeoutFires == \E t \in timers : Timeout(t)

Next ==
    \/ RunCalled
    \/ StopCalled
    \/ Cleanup
    \/ Focus
    \/ OnReadyCalled
    \/ LoadFires
    \/ MessageArrives
    \/ TimeoutFires

Spec == Init /\ [][Next]_vars

\* The timer queue of the event loop runs every armed timer that stays armed.
FairSpec == Spec /\ WF_vars(TimeoutFires)

\* ------------------------------------------------------ the artifact's shim
FirstFrameMsg == "firstFrame"
FrameLimitMsg == "error: Frame limit reached"
DrawErrorMsg == "error: Draw"
SetupCompleteMsg == "setupComplete"
SetupErrorMsg == "error: Setup"
LoadErrorMsg == "error: Load"
WindowErrorMsg == "error"

\* The two shims found in buildP5SandboxHTML: "wrap" replaces window.setup
\* and window.draw by wrappers around their values at that moment and then
\* runs the snippet; "setter" defines accessor properties whose setters wrap
\* what the snippet assigns.
Mechanisms == {"wrap", "setter"}

\* What the top level of a snippet does to a hook name: nothing, a function
\* declaration, an assignment to the window property.
HookDefinitions == {"none", "declares", "assigns"}

\* What a call of a user function does: it returns, throws a value that has
\* properties (an Error, a string), throws null or undefined, or never
\* returns.
Outcomes == {"returns", "throws", "throwsNull", "hangs"}

\* The shim script runs, then the snippet's top level. A declaration in the
\* snippet makes the hook name a non-configurable global variable, created
\* undefined before the script starts.
\* "wrap": originalSetup and originalDraw are captured before the snippet,
\* so they are undefined, and a hook the snippet defines overwrites the
\* wrapper. "setter": Object.defineProperty throws on a declared name, the
\* enclosing try block is left with a load error and the snippet never runs;
\* otherwise an assigned hook goes through the setter and a hook that is not
\* assigned reads as null.
evaluate(sh, mechanism, howSetup, howDraw) ==
    LET s1 == [sh EXCEPT !.mechanism = mechanism] IN
    IF mechanism = "wrap"
    THEN [s1 EXCEPT !.setupHook = IF howSetup = "none" THEN "wrapper" ELSE "user",
                    !.hook = IF howDraw = "none" THEN "wrapper" ELSE "user"]
    ELSE IF howSetup = "declares" \/ howDraw = "declares"
    THEN [s1 EXCEPT !.broken = TRUE, !.posted = <<LoadErrorMsg>>]
    ELSE [s1 EXCEPT !.setupHook = IF howSetup = "assigns" THEN "wrapper" ELSE "none",
                    !.hook = IF howDraw = "assigns" THEN "wrapper" ELSE "none",
                    !.userDraw = IF howDraw = "assigns" THEN "fn" ELSE NoDraw]

\* A draw setter that keeps the first-frame flag inside the wrapper it
\* builds, so that every assignment starts with a fresh flag.
setDraw_freshFlag(sh) ==
    IF sh.mechanism = "wrap"
    THEN [sh EXCEPT !.hook = "user", !.ranBody = FALSE, !.posted = <<>>,
                    !.result = "none", !.escaped = FALSE]
    ELSE [sh EXCEPT !.hook = "wrapper", !.userDraw = "fn",
                    !.firstFrameRendered = FALSE,
                    !.ranBody = FALSE, !.posted = <<>>,
                    !.result = "none", !.escaped = FALSE]

\* The snippet's code assigns window.draw while it runs: a plain write that
\* replaces the wrapper ("wrap"), or the draw setter of the shim
\* ("setter"): userDraw = function() { ... fn() ... }
setDraw(sh) ==
    IF sh.mechanism = "wrap"
    THEN [sh EXCEPT !.hook = "user", !.ranBody = FALSE, !.posted = <<>>,
                    !.result = "none", !.escaped = FALSE]
    ELSE [sh EXCEPT !.hook = "wrapper", !.userDraw = "fn",
                    !.ranBody = FALSE, !.posted = <<>>,
                    !.result = "none", !.escaped = FALSE]

\* One call of the instrumented setup hook. The wrapper of "wrap" calls
\* originalSetup (undefined), the one built by the setter calls the user's
\* function. The catch block reads e.message: with null or undefined thrown
\* that read throws in turn, the exception leaves the wrapper and
\* window.onerror posts a plain error.
setupWrapper(sh, outcome) ==
    LET s1 == [sh EXCEPT !.ranBody = FALSE, !.posted = <<>>,
                         !.result = "none", !.escaped = FALSE]
    IN  IF sh.mechanism = "wrap"
        THEN [s1 EXCEPT !.posted = <<SetupCompleteMsg>>]
        ELSE IF outcome = "throws"
        THEN [s1 EXCEPT !.ranBody = TRUE, !.result = outcome,
                        !.posted = <<SetupErrorMsg>>]
        ELSE IF outcome = "throwsNull"
        THEN [s1 EXCEPT !.ranBody = TRUE, !.result = outcome,
                        !.escaped = TRUE, !.posted = <<WindowErrorMsg>>]
        ELSE IF outcome = "hangs"
        THEN [s1 EXCEPT !.ranBody = TRUE, !.result = outcome, !.hung = TRUE]
        ELSE [s1 EXCEPT !.ranBody = TRUE, !.result = outcome,
                        !.posted = <<SetupCompleteMsg>>]

\* A draw wrapper that never calls the user's function.
drawWrapper_dropsBody(sh, outcome) ==
    LET n == sh.frameCount + 1
        s1 == [sh EXCEPT !.frameCount = n, !.ranBody = FALSE, !.posted = <<>>,
                         !.result = "none", !.escaped = FALSE]
        s2 == IF ~s1.firstFrameRendered
              THEN [s1 EXCEPT !.firstFrameRendered = TRUE,
                              !.posted = Append(@, FirstFrameMsg)]
              ELSE s1
    IN  IF n > maxFrames
        THEN [s2 EXCEPT !.noLoops = @ + 1,
                        !.limitErrors = @ + 1,
                        !.posted = Append(@, FrameLimitMsg)]
        ELSE s2

\* One call of the instrumented draw hook. userDraw = NoDraw is the wrapper
\* around originalDraw captured before the snippet ran (undefined), "fn" the
\* wrapper built by the property setter around the user's function. The
\* catch block reads e.message, as in the setup wrapper.
drawWrapper(sh, outcome) ==
    LET n == sh.frameCount + 1
        s1 == [sh EXCEPT !.frameCount = n, !.ranBody = FALSE, !.posted = <<>>,
                         !.result = "none", !.escaped = FALSE]
        s2 == IF ~s1.firstFrameRendered
              THEN [s1 EXCEPT !.firstFrameRendered = TRUE,
                              !.posted = Append(@, FirstFrameMsg)]
              ELSE s1
    IN  IF n > maxFrames
        THEN [s2 EXCEPT !.noLoops = @ + 1,
                        !.limitErrors = @ + 1,
                        !.posted = Append(@, FrameLimitMsg)]
        ELSE IF s2.userDraw = NoDraw THEN s2
        ELSE IF outcome = "throws"
        THEN [s2 EXCEPT !.ranBody = TRUE, !.result = outcome,
                        !.posted = Append(@, DrawErrorMsg)]
        ELSE IF outcome = "throwsNull"
        THEN [s2 EXCEPT !.ranBody = TRUE, !.result = outcome,
                        !.escaped = TRUE, !.posted = Append(@, WindowErrorMsg)]
        ELSE IF outcome = "hangs"
        THEN [s2 EXCEPT !.ranBody = TRUE, !.result = outcome, !.hung = TRUE]
        ELSE [s2 EXCEPT !.ranBody = TRUE, !.result = outcome]

\* One call of a user draw function that has replaced the wrapper: nothing is
\* counted, an exception reaches window.onerror.
userDrawCall(sh, outcome) ==
    [sh EXCEPT !.ranBody = TRUE,
               !.result = outcome,
               !.escaped = outcome \in {"throws", "throwsNull"},
               !.posted = IF outcome \in {"throws", "throwsNull"}
                          THEN <<WindowErrorMsg>> ELSE <<>>,
               !.hung = (outcome = "hangs")]

HostUnchanged ==
    UNCHANGED <<obj, browser, runs, threw, invoked, observed, logged,
                dropped, sender, lastCode, lastLanguage, firstFrameSeen,
                superseded, page>>

\* The document of the iframe is parsed: its script element runs.
Evaluate(mechanism, howSetup, howDraw) ==
    /\ shim.frame # Null
    /\ shim.mechanism = "none"
    /\ shim' = evaluate(shim, mechanism, howSetup, howDraw)
    /\ lastOp' = "evaluate"
    /\ HostUnchanged

Running == shim.mechanism # "none" /\ ~shim.broken /\ ~shim.hung

\* The snippet assigns its draw function.
SetDraw ==
    /\ Running
    /\ shim' = setDraw(shim)
    /\ lastOp' = "setDraw"
    /\ HostUnchanged

\* The drawing library calls window.setup, before the first frame.
Setup(outcome) ==
    /\ Running
    /\ shim.setupHook = "wrapper"
    /\ shim.frameCount = 0
    /\ shim' = setupWrapper(shim, outcome)
    /\ lastOp' = "setup"
    /\ HostUnchanged

\* The drawing library calls window.draw and finds the shim's wrapper.
Draw(outcome) ==
    /\ Running
    /\ shim.hook = "wrapper"
    /\ shim.frameCount < maxFrames + MaxExtraFrames
    /\ shim' = drawWrapper(shim, outcome)
    /\ lastOp' = "draw"
    /\ HostUnchanged

\* The drawing library calls window.draw and finds the user's own function.
UserDraw(outcome) ==
    /\ Running
    /\ shim.hook = "user"
    /\ shim' = userDrawCall(shim, outcome)
    /\ lastOp' = "userDraw"
    /\ HostUnchanged

EvaluateRuns ==
    \E mechanism \in Mechanisms, howSetup \in HookDefinitions,
       howDraw \in HookDefinitions : Evaluate(mechanism, howSetup, howDraw)
SetupCalled == \E outcome \in Outcomes : Setup(outcome)
DrawCalled == \E outcome \in Outcomes : Draw(outcome)
UserDrawCalled == \E outcome \in Outcomes : UserDraw(outcome)

RunScript == runs = 0 /\ Run(<<"x">>, "p5js")

ShimNext ==
    \/ RunScript
    \/ EvaluateRuns
    \/ SetDraw
    \/ SetupCalled
    \/ DrawCalled
    \/ UserDrawCalled

ShimSpec == Init /\ [][ShimNext]_vars

\* --------------------------------------------- one artifact after another
\* Script-mode runs in a row on one controller; each artifact is evaluated
\* and draws its first frames.
Rerun == runs < MaxRuns /\ Run(<<"x">>, "p5js")

EarlyDraw == shim.frameCount < MaxEarlyFrames /\ DrawCalled

RerunNext ==
    \/ Rerun
    \/ EvaluateRuns
    \/ SetDraw
    \/ SetupCalled
    \/ EarlyDraw
    \/ UserDrawCalled

RerunSpec == Init /\ [][RerunNext]_vars

\* ------------------------------------------------ messages and their source
\* Script-mode runs in a row on a controller whose container exists, so that
\* run k creates iframe k. A message posted by the artifact of any of these
\* iframes is delivered: by the current one, or by an earlier one whose
\* message was still queued when the iframe was removed. handleMessage does
\* not look at event.source.
Delivered(data, from) ==
    /\ container # Null
    /\ from \in 1..runs
    /\ Install(IF listeners # {} THEN handleMessage(Self, data) ELSE Self)
    /\ lastOp' = "message"
    /\ sender' = from
    /\ UNCHANGED <<lastCode, lastLanguage>>
    /\ firstFrameSeen' = (firstFrameSeen \/
                           (listeners # {} /\ data = "firstFrame" /\ iframe # Null))

MessageDelivered ==
    \E data \in MessageData, from \in 1..MaxRuns : Delivered(data, from)

SourceNext ==
    \/ Rerun
    \/ MessageDelivered
    \/ StopCalled
    \/ Focus
    \/ LoadFires
    \/ TimeoutFires

SourceSpec == Init /\ [][SourceNext]_vars

\* ------------------------------------------------ the guard and the artifact
\* Script-mode runs with their artifact: the script is evaluated, the
\* library calls the hooks it finds, the firstFrame the artifact posted is
\* delivered to the host, and the guard fires. The guard runs maxExecutionTime
\* after run(): it is taken to fire once the artifact is quiet, that is
\* evaluated, with no first call of an installed draw wrapper outstanding
\* and no posted firstFrame undelivered.
FirstFrameHeard ==
    /\ shim.firstFrameRendered
    /\ Delivered(FirstFrameMsg, shim.frame)

Quiet ==
    /\ shim.mechanism # "none"
    /\ ~(Running /\ shim.hook = "wrapper" /\ shim.frameCount = 0)
    /\ ~(shim.firstFrameRendered /\ timeoutId # Null)

LateTimeout == Quiet /\ TimeoutFires

GuardNext ==
    \/ Rerun
    \/ EvaluateRuns
    \/ SetupCalled
    \/ EarlyDraw
    \/ UserDrawCalled
    \/ FirstFrameHeard
    \/ LateTimeout

GuardSpec == Init /\ [][GuardNext]_vars

\* ------------------------------------------------ the workspace's preview
\* What stays of a controller the workspace no longer refers to: its iframe
\* reference, its guard handle and its message listener.
Retired(s) ==
    [iframe |-> s.iframe, timeoutId |-> s.timeoutId,
     messageHandler |-> s.messageHandler]

InPlace(o, s) ==
    \/ \E t \in s.timers : t.id = o.timeoutId
    \/ o.messageHandler \in s.listeners

\* new SandboxRunner('preview-container')
constructor(s) ==
    [s EXCEPT !.iframe = Null, !.timeoutId = Null,
              !.maxExecutionTime = DefaultExecutionTime, !.isWebGL = FALSE,
              !.loaded = FALSE, !.onLoadCallbacks = <<>>,
              !.messageHandler = Null, !.srcdoc = <<>>]

\* runPreview() with currentCode = code
runPreview(s, code, language) ==
    IF s.container = Null THEN s
    ELSE IF code = <<>> THEN SetChildren(s, {Placeholder})
    ELSE run(constructor(s), code, language)

RunPreview(code, language) ==
    /\ runs < MaxRuns
    /\ InstallSelf(runPreview([Self EXCEPT !.runs = @ + 1], code, language))
    /\ superseded' =
          IF container # Null /\ code # <<>> /\ InPlace(Retired(Self), Self)
          THEN superseded \cup {Retired(Self)}
          ELSE superseded
    /\ lastOp' = "runPreview"
    /\ sender' = Null
    /\ lastCode' = code
    /\ lastLanguage' = language
    /\ firstFrameSeen' = FALSE

\* stop(reason) of a superseded controller o: its iframe is removed (it left
\* the document already), the container shows the diagnostic, its listener
\* is detached.
stopSuperseded(s, o, reason) ==
    LET s1 == clearTimeout(s, o.timeoutId)
        s2 == IF o.iframe # Null
              THEN SetChildren(s1, s1.children \ {IframeNode(o.iframe)})
              ELSE s1
        s3 == IF Truthy(reason) THEN SetChildren(s2, {Diagnostic(reason)}) ELSE s2
    IN  IF o.messageHandler # Null
        THEN [s3 EXCEPT !.listeners = @ \ {o.messageHandler}]
        ELSE s3

\* An armed guard fires: that of the workspace's controller, or that of a
\* superseded one.
PreviewTimeout(t) ==
    /\ t \in timers
    /\ IF t.id = timeoutId
       THEN /\ InstallSelf(timeoutCallback([Self EXCEPT !.timers = @ \ {t}]))
            /\ UNCHANGED superseded
       ELSE \E o \in superseded :
               /\ o.timeoutId = t.id
               /\ InstallSelf(stopSuperseded([Self EXCEPT !.timers = @ \ {t}],
                                             o, TimeoutReason))
               /\ superseded' = superseded \ {o}
    /\ Called("timeout")
    /\ firstFrameSeen' = FALSE

\* A message event on window reaches the listener of the workspace's
\* controller and the listeners superseded controllers left attached; on a
\* firstFrame each of them clears the guard it holds.
Heard(o, data) ==
    IF data = "firstFrame" /\ o.messageHandler \in listeners
    THEN [o EXCEPT !.timeoutId = Null] ELSE o

PreviewMessage(data) ==
    LET s1 == IF messageHandler \in listeners
              THEN handleMessage(Self, data) ELSE Self
        cleared == {o.timeoutId : o \in {r \in superseded : Heard(r, data) # r}}
    IN  /\ InstallSelf([s1 EXCEPT !.timers = {t \in @ : t.id \notin cleared}])
        /\ superseded' = {r \in {Heard(o, data) : o \in superseded} : InPlace(r, s1)}
        /\ Called("message")
        /\ firstFrameSeen' = (firstFrameSeen \/
                               (messageHandler \in listeners /\ data = "firstFrame"
                                  /\ iframe # Null))

PreviewRuns == \E code \in Codes, language \in Languages : RunPreview(code, language)
PreviewTimeoutFires == \E t \in timers : PreviewTimeout(t)
PreviewMessageArrives == \E data \in MessageData : PreviewMessage(data)

WorkspaceNext ==
    \/ PreviewRuns
    \/ PreviewTimeoutFires
    \/ PreviewMessageArrives
    \/ LoadFires

WorkspaceSpec == Init /\ [][WorkspaceNext]_vars

\* ------------------------------------------------- run() on arbitrary input
\* Every code string of at most MaxCodeLen symbols; the marker appears in
\* upper, lower and mixed case.
InputChars == {" ", "<", "x", "webgl", "WEBGL", "WebGL"}
InputCodes == UNION {[1..n -> InputChars] : n \in 0..MaxCodeLen}
InputLanguages == {"p5js", "html", "document"}

RunInput ==
    /\ runs < MaxInputRuns
    /\ \E code \in InputCodes, language \in InputLanguages : Run(code, language)

InputNext == RunInput

InputSpec == Init /\ [][InputNext]_vars

\* ------------------------------------------- the artifact built for a snippet
\* Every snippet of at most MaxSnippetLen symbols over the characters "<",
\* "/", ">", " ", the word script in lower and upper case, and a letter.
SnippetChars == {"<", "/", ">", " ", "script", "SCRIPT", "x"}
Snippets == UNION {[1..n -> SnippetChars] : n \in 0..MaxSnippetLen}

BuildArtifact ==
    /\ runs = 0
    /\ \E code \in Snippets : Run(code, "p5js")

EscapeNext == BuildArtifact

EscapeSpec == Init /\ [][EscapeNext]_vars

\* ------------------------------------------------------------- auth.js
\* The page's storage, location and requests in flight, as one record that
\* the functions below transform; `last` records what the step did.
Page == [localStorage |-> localStorage, href |-> href, pending |-> pending,
         last |-> last]

InstallPage(p) ==
    /\ localStorage' = p.localStorage
    /\ href' = p.href
    /\ pending' = p.pending
    /\ last' = p.last
    /\ UNCHANGED <<obj, browser, trace, superseded, shim>>

\* localStorage.getItem / setItem / removeItem
getItem(p, key) == p.localStorage[key]
setItem(p, key, value) == [p EXCEPT !.localStorage[key] = value]
removeItem(p, key) == [p EXCEPT !.localStorage[key] = NoItem]

\* JSON.stringify(data.user)
stringify(user) == IF user = "ada" THEN "{\"username\":\"ada\"}" ELSE Undefined

\* getToken()
getToken(p) == getItem(p, "auth_token")

\* if (token): null and the empty string are falsy
HasToken(token) == token # NoItem /\ token # ""

\* window.location.href = url
redirect(p, url) == [p EXCEPT !.href = url, !.last.redirect = TRUE]

\* fetch(...) followed by await: the request is in flight, the function
\* is suspended.
fetch(p, fn, token) ==
    [p EXCEPT !.pending = @ \cup {Request(fn, token)},
              !.last = [fn |-> fn, phase |-> "awaiting", sent |-> TRUE,
                        redirect |-> FALSE, response |-> NoResponse,
                        returned |-> Awaiting]]

\* The function is entered (called) or resumed with the answer to its
\* request (done unless it awaits again).
entered(p, fn) ==
    [p EXCEPT !.last = [fn |-> fn, phase |-> "done", sent |-> FALSE,
                        redirect |-> FALSE, response |-> NoResponse,
                        returned |-> ReturnedUndefined]]
resumed(p, r, response) ==
    [p EXCEPT !.pending = @ \ {r},
              !.last = [fn |-> r.fn, phase |-> "done", sent |-> FALSE,
                        redirect |-> FALSE, response |-> response,
                        returned |-> ReturnedUndefined]]
return(p, result) == [p EXCEPT !.last.returned = result]

\* login(username, pin), up to the await of fetch
login(p) == fetch(p, "login", NoItem)

\* login after its fetch settled, with the failure branches clearing the
\* stored session.
login_settled_clears(p, response) ==
    LET data == response.body IN
    IF response.kind = "rejects" \/ ~data.json
    THEN return(removeItem(removeItem(p, "auth_token"), "current_user"),
                Result("object", FALSE, NetworkErrorMsg))
    ELSE IF data.success
    THEN return(setItem(setItem(p, "auth_token", data.token),
                        "current_user", stringify(data.user)),
                Result("object", TRUE, Undefined))
    ELSE return(removeItem(removeItem(p, "auth_token"), "current_user"),
                Result("object", FALSE, data.error))

\* login after its fetch settled: a rejection of fetch or of
\* response.json() is caught; the status is not looked at.
login_settled(p, response) ==
    LET data == response.body IN
    IF response.kind = "rejects" \/ ~data.json
    THEN return(p, Result("object", FALSE, NetworkErrorMsg))
    ELSE IF data.success
    THEN return(setItem(setItem(p, "auth_token", data.token),
                        "current_user", stringify(data.user)),
                Result("object", TRUE, Undefined))
    ELSE return(p, Result("object", FALSE, data.error))

\* The click handler of the login button after `await login(...)`.
loginClicked(p) ==
    IF p.last.returned.success THEN redirect(p, ProjectsPage) ELSE p

\* The end of logout(): both items removed, then the redirect.
logout_end(p) ==
    return(redirect(removeItem(removeItem(p, "auth_token"), "current_user"),
                    LoginPage),
           ReturnedUndefined)

\* logout(), up to the await of fetch when a token is stored
logout(p) ==
    LET token == getToken(p) IN
    IF HasToken(token) THEN fetch(p, "logout", token)
    ELSE logout_end(entered(p, "logout"))

\* logout after its fetch settled, without the try/catch around the fetch.
logout_settled_uncaught(p, response) ==
    IF response.kind = "rejects" THEN return(p, Raised) ELSE logout_end(p)

\* logout after its fetch settled: a rejection is caught and ignored, the
\* response is not looked at.
logout_settled(p, response) == logout_end(p)

\* apiRequest(url, options), up to the await of fetch
apiRequest(p) ==
    LET token == getToken(p) IN
    IF ~HasToken(token)
    THEN return(redirect(entered(p, "apiRequest"), LoginPage), ReturnedNull)
    ELSE fetch(p, "apiRequest", token)

\* apiRequest after its fetch settled, with a 401 branch that keeps the
\* stored token.
apiRequest_settled_keepsToken(p, response) ==
    IF response.kind = "rejects" THEN return(p, Raised)
    ELSE IF response.status = 401
    THEN return(redirect(p, LoginPage), ReturnedNull)
    ELSE IF response.body.json THEN return(p, ReturnedData)
    ELSE return(p, Raised)

\* apiRequest after its fetch settled: no try/catch, so a rejection of
\* fetch or of response.json() reaches the caller.
apiRequest_settled(p, response) ==
    IF response.kind = "rejects" THEN return(p, Raised)
    ELSE IF response.status = 401
    THEN return(redirect(removeItem(p, "auth_token"), LoginPage), ReturnedNull)
    ELSE IF response.body.json THEN return(p, ReturnedData)
    ELSE return(p, Raised)

CanSend == Cardinality(pending) < MaxPending

LoginCalled ==
    /\ CanSend
    /\ InstallPage(login(Page))

LoginSettles ==
    \E r \in pending, response \in LoginResponses :
        /\ r.fn = "login"
        /\ InstallPage(loginClicked(login_settled(resumed(Page, r, response),
                                                  response)))

LogoutCalled ==
    /\ CanSend
    /\ InstallPage(logout(Page))

LogoutSettles ==
    \E r \in pending, response \in LogoutResponses :
        /\ r.fn = "logout"
        /\ InstallPage(logout_settled(resumed(Page, r, response), response))

ApiRequestCalled ==
    /\ CanSend
    /\ InstallPage(apiRequest(Page))

ApiRequestSettles ==
    \E r \in pending, response \in ApiResponses :
        /\ r.fn = "apiRequest"
        /\ InstallPage(apiRequest_settled(resumed(Page, r, response), response))

AuthNext ==
    \/ LoginCalled
    \/ LoginSettles
    \/ LogoutCalled
    \/ LogoutSettles
    \/ ApiRequestCalled
    \/ ApiRequestSettles

AuthSpec == Init /\ [][AuthNext]_vars

TypeOK ==
    /\ container \in {Element, Null}
    /\ iframe \in 0..MaxRuns
    /\ timeoutId \in 0..MaxRuns
    /\ maxExecutionTime \in {DefaultExecutionTime, WebGLExecutionTime}
    /\ loaded \in BOOLEAN
    /\ Len(onLoadCallbacks) <= MaxCallbacks
    /\ runs \in 0..MaxRuns

\* ------------------------------------------------------------------ claims
LiveBoundaries == FramesOf(children)
Blank(code) == Trim(code) = <<>>
DocumentMode(code, language) ==
    language = "html" \/ StartsWith(Trim(code), <<"<">>)

\* C1: at most one iframe created by the controller is in the document, the
\* controller's iframe reference names exactly that one, and it is the
\* iframe created by the most recent run() call.
C1_OneLiveBoundary ==
    /\ Cardinality(LiveBoundaries) <= 1
    /\ LiveBoundaries = (IF iframe = Null THEN {} ELSE {iframe})
    /\ iframe # Null => iframe = runs

\* A second run has replaced the boundary of a first run that never loaded.
C1_Witness ==
    /\ runs = 2
    /\ iframe = 2
    /\ LiveBoundaries = {2}
    /\ lastOp = "run"

\* C2: at most one guard timer is armed; an armed guard is the one held in
\* timeoutId, belongs to the iframe of the most recent run, and none is armed
\* when the controller has no iframe.
C2_OneGuard ==
    /\ Cardinality(timers) <= 1
    /\ \A t \in timers :
          /\ iframe # Null
          /\ t.id = iframe
          /\ t.id = timeoutId
          /\ t.id = runs
    /\ iframe = Null => timers = {}

\* The guard of a second script run is armed, the first one's is gone.
C2_Witness ==
    /\ runs = 2
    /\ timers = {[id |-> 2, ms |-> DefaultExecutionTime]}
    /\ timeoutId = 2

\* C3: a guard armed by a script-mode run leads, unless a firstFrame is
\* handled or run/stop/cleanup is called, to the guard firing: the iframe is
\* removed, the handle cleared, the listener detached and the timeout
\* diagnostic shown. A further script-mode run arms a guard of its own, to
\* which the same applies; a further run that arms none ends the obligation.
GuardFired ==
    /\ lastOp = "timeout"
    /\ iframe = Null
    /\ LiveBoundaries = {}
    /\ timeoutId = Null
    /\ timers = {}
    /\ listeners = {}
    /\ children = {Diagnostic(TimeoutReason)}

C3_GuardFires ==
    (lastOp = "run" /\ timeoutId # Null)
        ~> \/ GuardFired
           \/ firstFrameSeen
           \/ lastOp \in {"stop", "cleanup"}
           \/ lastOp = "run" /\ timeoutId = Null

C3_Witness == GuardFired /\ ~threw

\* C4: once a firstFrame message has been handled for the current iframe the
\* guard is cancelled (no handle, no armed timer), and the iframe is removed
\* only by a later run, stop or cleanup call.
C4_FirstFrameCancelsGuard ==
    [][/\ firstFrameSeen' => (timeoutId' = Null /\ timers' = {})
       /\ (firstFrameSeen /\ iframe # Null /\ iframe' # iframe)
             => lastOp' \in {"run", "stop", "cleanup"}]_vars

\* A firstFrame was handled while the guard was armed, and the run went on.
C4_Witness ==
    /\ firstFrameSeen
    /\ iframe # Null
    /\ loaded
    /\ messageHandler = iframe
    /\ lastOp = "focus"

\* C5: while the iframe of a document-mode run is current, its srcdoc is the
\* code passed to run(), no guard handle is held, no timer is armed and no
\* message listener is attached.
C5_DocumentMode ==
    (iframe # Null /\ DocumentMode(lastCode, lastLanguage)) =>
        /\ srcdoc = lastCode
        /\ timeoutId = Null
        /\ timers = {}
        /\ listeners = {}

\* A document-mode run that replaced a script-mode run and has loaded.
C5_Witness ==
    /\ iframe # Null
    /\ DocumentMode(lastCode, lastLanguage)
    /\ messageHandler # Null
    /\ loaded

\* C6: a message event delivered while the controller has no iframe changes
\* no field of the controller and no browser object, raises nothing and is
\* not logged by handleMessage.
C6_LateEventIgnored ==
    [][(lastOp' = "message" /\ iframe = Null) =>
          /\ UNCHANGED <<obj, browser>>
          /\ ~threw'
          /\ logged' = "none"]_vars

\* A message delivered after the guard fired and tore the boundary down.
C6_Witness ==
    /\ lastOp = "message"
    /\ iframe = Null
    /\ messageHandler # Null
    /\ children = {Diagnostic(TimeoutReason)}

\* C7 (as stated): a run() with blank code ends with no iframe, no guard, no
\* listener, and with the placeholder shown.
C7_BlankRunShowsPlaceholder ==
    (lastOp = "run" /\ Blank(lastCode)) =>
        /\ iframe = Null
        /\ LiveBoundaries = {}
        /\ timeoutId = Null
        /\ timers = {}
        /\ listeners = {}
        /\ children = {Placeholder}

\* C7 (amended): a run() with blank code ends with no iframe, no guard and no
\* listener; the placeholder is shown when the container element exists.
C7_BlankRun ==
    (lastOp = "run" /\ Blank(lastCode)) =>
        /\ iframe = Null
        /\ LiveBoundaries = {}
        /\ timeoutId = Null
        /\ timers = {}
        /\ listeners = {}
        /\ ~threw
        /\ container # Null => children = {Placeholder}

\* A blank run that followed a script-mode run.
C7_Witness ==
    /\ lastOp = "run"
    /\ Blank(lastCode)
    /\ lastCode # <<>>
    /\ messageHandler # Null
    /\ children = {Placeholder}

\* C8 (as stated): cleanup() never raises, leaves the controller Idle (no
\* iframe, no guard, no listener, not ready), and a second cleanup() in a row
\* changes nothing.
C8_CleanupIdempotent ==
    [][lastOp' = "cleanup" =>
          /\ ~threw'
          /\ iframe' = Null
          /\ timeoutId' = Null
          /\ timers' = {}
          /\ listeners' = {}
          /\ ~loaded'
          /\ lastOp = "cleanup" => UNCHANGED <<obj, browser>>]_vars

\* C9 (as stated): stop(reason) with a non-empty reason never raises.
C9_StopNeverRaises ==
    [][(\E reason \in Reasons : Truthy(reason) /\ Stop(reason)) => ~threw']_vars

\* C10: run() returns without raising, from every state and for every code
\* string and language hint.
C10_RunNeverRaises == lastOp = "run" => ~threw

\* run() has returned on a controller whose container is missing.
C10_Witness ==
    /\ lastOp = "run"
    /\ container = Null
    /\ ~Blank(lastCode)

\* C11: a run() with non-blank code takes the document branch (the code
\* itself becomes the srcdoc, no guard, no listener) exactly when the hint is
\* 'html' or the first non-whitespace character of the code is '<'; every
\* other input takes the script branch (shim artifact, guard armed).
FirstNonSpace(code) == Head(TrimStart(code))
ExpectDocument(code, language) ==
    language = "html" \/ FirstNonSpace(code) = "<"
TookDocumentBranch ==
    /\ srcdoc = lastCode
    /\ timeoutId = Null
    /\ timers = {}
    /\ listeners = {}
TookScriptBranch ==
    /\ srcdoc = buildP5SandboxHTML(Self, lastCode)
    /\ timeoutId = iframe
    /\ Cardinality(timers) = 1
    /\ listeners = {iframe}

C11_ModeDetection ==
    (lastOp = "run" /\ container # Null /\ ~Blank(lastCode)) =>
        /\ iframe = runs
        /\ ExpectDocument(lastCode, lastLanguage) => TookDocumentBranch
        /\ ~ExpectDocument(lastCode, lastLanguage) => TookScriptBranch

\* Markup after leading whitespace, run with a script hint, went the
\* document way.
C11_Witness ==
    /\ lastOp = "run"
    /\ lastCode = <<" ", "<">>
    /\ lastLanguage = "p5js"
    /\ TookDocumentBranch
    /\ iframe # Null

\* C12 (as stated): the guard of a script-mode run lasts 15000 ms when the
\* code contains the marker in any letter case, 5000 ms otherwise, whatever
\* the previous run used.
MarkerForms == {"webgl", "WEBGL", "WebGL"}
ContainsMarker(code) == \E i \in 1..Len(code) : code[i] \in MarkerForms
C12_GuardDuration ==
    (lastOp = "run" /\ timers # {}) =>
        \A t \in timers :
            t.ms = IF ContainsMarker(lastCode)
                   THEN WebGLExecutionTime ELSE DefaultExecutionTime

\* C13: a draw call runs the user's function exactly when one is wrapped and
\* the frame counter after the call is at most maxFrames; up to call
\* maxFrames no frame-limit error is posted and noLoop is not called, and
\* call maxFrames + 1 posts the one frame-limit error and calls noLoop once.
C13_FrameLimit ==
    [][lastOp' = "draw" =>
          /\ shim'.frameCount = shim.frameCount + 1
          /\ shim'.ranBody = (shim.userDraw # NoDraw /\ shim'.frameCount <= maxFrames)
          /\ shim'.frameCount <= maxFrames =>
                /\ shim'.limitErrors = 0
                /\ shim'.noLoops = 0
                /\ \A i \in 1..Len(shim'.posted) : shim'.posted[i] # FrameLimitMsg
          /\ shim'.frameCount = maxFrames + 1 =>
                /\ shim'.limitErrors = 1
                /\ shim'.noLoops = 1
                /\ shim'.posted = <<FrameLimitMsg>>]_vars

\* Call maxFrames + 1 of a wrapper around a user function.
C13_Witness ==
    /\ lastOp = "draw"
    /\ shim.frameCount = maxFrames + 1
    /\ shim.userDraw # NoDraw
    /\ shim.limitErrors = 1
    /\ ~shim.ranBody

\* C14 (as stated): once the frame counter has exceeded maxFrames a draw call
\* does not run the user's function and posts nothing, so that at most one
\* frame-limit error is posted per artifact.
C14_NoOpAfterLimit ==
    [][(lastOp' = "draw" /\ shim.frameCount > maxFrames) =>
          /\ ~shim'.ranBody
          /\ shim'.posted = <<>>
          /\ shim'.limitErrors <= 1]_vars

\* C15: the load event of the current iframe sets the ready flag, calls every
\* queued callback once in registration order and leaves the queue empty;
\* onReady() before readiness only queues, onReady() after readiness calls
\* the callback at once and does not queue it; no other operation calls a
\* callback. While an iframe is current the ready flag tells whether its load
\* event has fired.
C15_ReadyCallbacks ==
    [][/\ lastOp' = "load" =>
             /\ loaded'
             /\ invoked' = onLoadCallbacks
             /\ onLoadCallbacks' = <<>>
       /\ (lastOp' = "onReady" /\ ~loaded) =>
             /\ invoked' = <<>>
             /\ \E cb \in Callbacks : onLoadCallbacks' = Append(onLoadCallbacks, cb)
       /\ (lastOp' = "onReady" /\ loaded) =>
             /\ Len(invoked') = 1
             /\ invoked'[1] \in Callbacks
             /\ onLoadCallbacks' = onLoadCallbacks
       /\ lastOp' \notin {"load", "onReady"} => invoked' = <<>>
       /\ iframe' # Null => (loaded' <=> iframe' \notin loading')]_vars

\* Two different callbacks were queued and the load event has called them.
C15_Witness ==
    /\ lastOp = "load"
    /\ Len(invoked) = 2
    /\ invoked[1] # invoked[2]
    /\ onLoadCallbacks = <<>>

\* C16: a run() that creates an iframe discards the callbacks pending at that
\* moment without calling them, so the queue of the new iframe starts empty
\* and its load event calls only callbacks queued after the run() call.
C16_PendingDropped ==
    [][(lastOp' = "run" /\ iframe' # Null) =>
          /\ onLoadCallbacks' = <<>>
          /\ dropped' = onLoadCallbacks
          /\ invoked' = <<>>]_vars

\* A run() has discarded two pending callbacks.
C16_Witness ==
    /\ lastOp = "run"
    /\ iframe # Null
    /\ Len(dropped) = 2
    /\ onLoadCallbacks = <<>>

\* C17: focus() on a ready iframe focuses it at once and queues nothing;
\* focus() before readiness focuses nothing and queues the focus closure; the
\* load event focuses the iframe; and an iframe only ever holds the focus
\* after its load event.
C17_FocusAfterReady ==
    [][/\ (lastOp' = "focus" /\ loaded /\ iframe # Null) =>
             /\ focused' = iframe
             /\ onLoadCallbacks' = onLoadCallbacks
       /\ (lastOp' = "focus" /\ ~loaded) =>
             /\ focused' = focused
             /\ onLoadCallbacks' = Append(onLoadCallbacks, FocusClosure)
       /\ lastOp' = "load" => (focused' = iframe /\ iframe # Null)
       /\ focused' # Null =>
             /\ focused' = iframe'
             /\ loaded'
             /\ focused' \notin loading']_vars

\* focus() was called on an iframe that has not loaded: nothing is focused,
\* the closure is queued.
C17_Witness ==
    /\ lastOp = "focus"
    /\ iframe # Null
    /\ iframe \in loading
    /\ focused = Null
    /\ onLoadCallbacks = <<FocusClosure>>

Armed == timers' \ timers
Disarmed == timers \ timers'

\* C18 (as stated): a guard is armed only by a run(), one per run, and is
\* disarmed only by the handling of a firstFrame message or by its own
\* firing; a firstFrame handled when no handle is held changes no timer.
C18_CancelledByFirstFrameOrFiring ==
    [][/\ Armed # {} =>
             /\ lastOp' = "run"
             /\ Armed = {[id |-> runs', ms |-> maxExecutionTime']}
       /\ Disarmed # {} =>
             \/ lastOp' = "message" /\ logged' = "firstFrame"
             \/ lastOp' = "timeout"
       /\ (lastOp' = "message" /\ timeoutId = Null) => timers' = timers]_vars

\* C18 (amended): a guard is armed only by a run(), one per run and under an
\* id never used before; the armed guard is the one whose handle is held; it
\* is disarmed once, together with its handle, by the handling of a
\* firstFrame message, by its own firing, or by a run/stop/cleanup call, and
\* no guard stays armed for an iframe that is no longer current; a firstFrame
\* handled when no handle is held changes no timer.
C18_GuardCancelledOnce ==
    [][/\ Armed # {} =>
             /\ lastOp' = "run"
             /\ runs' = runs + 1
             /\ Armed = {[id |-> runs', ms |-> maxExecutionTime']}
             /\ timers' = Armed
       /\ Disarmed # {} =>
             /\ Cardinality(Disarmed) = 1
             /\ \A t \in Disarmed : t.id = timeoutId /\ timeoutId' # t.id
             /\ \/ lastOp' = "message" /\ logged' = "firstFrame"
                \/ lastOp' \in {"timeout", "run", "stop", "cleanup"}
       /\ \A t \in timers' : t.id = iframe'
       /\ (lastOp' = "message" /\ timeoutId = Null) => timers' = timers]_vars

\* A second firstFrame message arrived after the first one cancelled the
\* guard.
C18_Witness ==
    /\ lastOp = "message"
    /\ logged = "firstFrame"
    /\ firstFrameSeen
    /\ iframe # Null
    /\ messageHandler = iframe
    /\ timeoutId = Null
    /\ timers = {}
    /\ loaded

\* C19: a handled error or setupComplete message changes no field of the
\* controller and no browser object; no message of any kind removes the
\* iframe or touches the container, the ready flag, the callback queue or
\* the listener; the iframe goes away only by run, stop, cleanup or the guard
\* firing.
C19_StatusEventsLogOnly ==
    [][/\ (lastOp' = "message" /\ logged' \in {"error", "setupComplete"}) =>
             /\ UNCHANGED <<obj, browser, shim>>
             /\ ~threw'
       /\ lastOp' = "message" =>
             UNCHANGED <<iframe, children, loading, srcdoc, listeners, loaded,
                         onLoadCallbacks, focused, messageHandler>>
       /\ (iframe # Null /\ iframe' # iframe) =>
             lastOp' \in {"run", "stop", "cleanup", "timeout"}]_vars

\* An error message was handled while the guard of the run was armed.
C19_Witness ==
    /\ lastOp = "message"
    /\ logged = "error"
    /\ iframe # Null
    /\ timers # {}
    /\ listeners = {iframe}

\* C20: at most one message listener of the controller is attached, it is the
\* one held in _messageHandler and belongs to the current iframe; none is
\* attached when there is no iframe, in particular after stop(), cleanup()
\* and the guard firing.
C20_OneListener ==
    /\ Cardinality(listeners) <= 1
    /\ listeners \subseteq {messageHandler}
    /\ listeners # {} => (iframe # Null /\ listeners = {iframe})
    /\ lastOp \in {"stop", "cleanup", "timeout"} => listeners = {}

\* The listener of a script-mode run has been detached by stop().
C20_Witness ==
    /\ lastOp = "stop"
    /\ ~threw
    /\ messageHandler # Null
    /\ listeners = {}
    /\ iframe = Null

\* The part of the artifact that holds the escaped snippet, between the shim
\* and the auto-focus tail.
SnippetRegion == SubSeq(srcdoc, 2, Len(srcdoc) - 1)

\* The tokenizer of the document ends a script element at "</" followed by
\* the word script in any letter case and then white space, "/" or ">".
EndsScript(str) ==
    \E i \in 1..(Len(str) - 3) :
        /\ str[i] = "<"
        /\ str[i + 1] = "/"
        /\ str[i + 2] \in ScriptWords
        /\ str[i + 3] \in {" ", "/", ">"}

\* C21 (as stated): the region of a built artifact that holds the escaped
\* snippet contains no end of the script element: every closing script tag of
\* the snippet, in any letter case, also with white space or "/" before the
\* ">", is neutralized.
C21_NoScriptEnd ==
    (lastOp = "run" /\ shim.frame # Null) => ~EndsScript(SnippetRegion)

\* C22: while the iframe of a script-mode run is current and no firstFrame
\* message has been handled for it, the guard of that run is armed and its
\* handle held, from the run() call on and so before the load event of the
\* artifact; the artifact's srcdoc is set with the guard already armed.
C22_ArmedBeforeLoad ==
    (iframe # Null /\ ~DocumentMode(lastCode, lastLanguage) /\ ~firstFrameSeen) =>
        /\ timeoutId = iframe
        /\ timers = {[id |-> iframe, ms |-> maxExecutionTime]}
        /\ srcdoc = buildP5SandboxHTML(Self, lastCode)

\* The guard has torn down an artifact whose load event never fired and that
\* sent no firstFrame.
C22_Witness ==
    /\ GuardFired
    /\ ~loaded
    /\ ~DocumentMode(lastCode, lastLanguage)
    /\ runs = 1

Posted(sh, msg) == \E i \in 1..Len(sh.posted) : sh.posted[i] = msg

\* C23 (as stated): a call of the instrumented draw hook around a user
\* function posts firstFrame only when the user's function has returned
\* normally from that call; a call that never returns posts no firstFrame.
C23_FirstFrameAfterSuccess ==
    [][(lastOp' = "draw" /\ shim.userDraw # NoDraw /\ Posted(shim', FirstFrameMsg)) =>
          /\ shim'.ranBody
          /\ ~shim'.hung
          /\ ~Posted(shim', DrawErrorMsg)]_vars

C25_HooksIntercepted ==
    [][/\ lastOp' = "setDraw" => (shim'.hook = "wrapper" /\ shim'.userDraw = "fn")
       /\ lastOp' # "userDraw"]_vars

\* C26 (as stated): every call of the instrumented setup hook from which the
\* user's function comes back posts exactly one message, setupComplete when
\* the function returned and the setup error when it threw, and no exception
\* leaves the wrapper.
C26_SetupContained ==
    [][(lastOp' = "setup" /\ ~shim'.hung) =>
          /\ ~shim'.escaped
          /\ shim'.posted =
                IF shim'.result \in {"throws", "throwsNull"}
                THEN <<SetupErrorMsg>> ELSE <<SetupCompleteMsg>>]_vars

ThrewInDraw(sh) == sh.result \in {"throws", "throwsNull"}

\* C27 (as stated): an exception thrown by the user's function in a call of
\* the instrumented draw hook does not leave the wrapper and is reported by
\* exactly one draw error and nothing else but a firstFrame; the hook stays
\* in place, and the next call counts one more frame and runs the user's
\* function again unless the frame limit is passed.
C27_DrawErrorContained ==
    [][/\ (lastOp' = "draw" /\ ThrewInDraw(shim')) =>
             /\ ~shim'.escaped
             /\ SelectSeq(shim'.posted, LAMBDA m : m # FirstFrameMsg) = <<DrawErrorMsg>>
             /\ shim'.hook = "wrapper"
       /\ (lastOp = "draw" /\ ThrewInDraw(shim) /\ lastOp' = "draw") =>
             /\ shim'.frameCount = shim.frameCount + 1
             /\ shim'.frameCount <= maxFrames => shim'.ranBody]_vars

\* C28: the shim state belongs to the iframe of the current run and to no
\* other; a run() that creates a script-mode iframe starts its artifact with
\* frame counter 0 and a false first-frame flag whatever the previous
\* artifact had counted or posted, and the first draw call of the new
\* artifact posts its own firstFrame.
C28_FreshShim ==
    [][/\ shim'.frame \in {Null, iframe'}
       /\ (lastOp' = "run" /\ iframe' # Null) =>
             /\ shim'.frame = iframe'
             /\ shim'.frame # shim.frame
             /\ shim'.frameCount = 0
             /\ ~shim'.firstFrameRendered
             /\ shim'.posted = <<>>
             /\ shim'.hook = "none"
       /\ (lastOp' = "draw" /\ shim.frameCount = 0) =>
             /\ shim'.frameCount = 1
             /\ Posted(shim', FirstFrameMsg)]_vars

\* The artifact of a second run has drawn its first frame and posted
\* firstFrame.
C28_Witness ==
    /\ runs = 2
    /\ shim.frame = 2
    /\ lastOp = "draw"
    /\ shim.frameCount = 1
    /\ Posted(shim, FirstFrameMsg)

\* C29: the load event of the current iframe sets the ready flag, then calls
\* every pending callback, then focuses the iframe, in one step: each
\* callback finds the ready flag true, the callbacks before the first queued
\* focus closure find the focus where it was before the event, and after the
\* step the queue is empty and the iframe holds the focus.
C29_ReadyThenDrainThenFocus ==
    [][lastOp' = "load" =>
          /\ loaded'
          /\ invoked' = onLoadCallbacks
          /\ Len(observed') = Len(invoked')
          /\ \A i \in 1..Len(observed') :
                /\ observed'[i].loaded
                /\ (\A j \in 1..(i - 1) : invoked'[j] # FocusClosure) =>
                      /\ observed'[i].focused = focused
                      /\ observed'[i].focused # iframe
          /\ onLoadCallbacks' = <<>>
          /\ focused' = iframe
          /\ iframe' = iframe]_vars

\* The load event called a pending callback of the caller, which found the
\* iframe ready and not yet focused; the iframe is focused now.
C29_Witness ==
    /\ lastOp = "load"
    /\ Len(invoked) = 2
    /\ invoked[1] \in Callbacks
    /\ observed[1] = [loaded |-> TRUE, focused |-> Null]
    /\ focused = iframe
    /\ iframe # Null

\* C30 (as stated): a message cancels a guard only when it was posted by the
\* artifact of the iframe that guard belongs to, the current one; a
\* firstFrame of a superseded run leaves the guard of the later run armed.
C30_StaleFirstFrameIgnored ==
    [][(lastOp' = "message" /\ timers' # timers) => sender' = iframe]_vars

\* C31 (as stated): in the workspace a guard fires only when it belongs to
\* the controller of the latest runPreview call and was armed by that call;
\* the guard of an earlier preview never fires after a later runPreview.
C31_SupersededGuardSilent ==
    [][lastOp' = "timeout" =>
          \A t \in timers \ timers' : t.id = timeoutId /\ t.id = runs]_vars

\* C32 (as stated): the ready flag is set only while the controller has an
\* iframe whose load event has fired; in particular it is clear after
\* stop(), cleanup(), the guard firing and a blank run(), and onReady()
\* called when there is no iframe does not call the callback at once.
C32_ReadyOnlyWhileLive ==
    [][/\ loaded' => (iframe' # Null /\ iframe' \notin loading')
       /\ (lastOp' = "onReady" /\ iframe = Null) => invoked' = <<>>]_vars

\* C33 (as stated): the guard does not tear down an artifact whose snippet
\* defined no draw hook and whose calls so far raised no error: when the
\* guard fires on a quiet artifact, the snippet had defined a draw hook, or
\* the shim failed to install, or a user function threw or hung.
C33_NoHookNotTornDown ==
    [][lastOp' = "timeout" =>
          \/ shim.hook = "user"
          \/ shim.userDraw # NoDraw
          \/ shim.broken
          \/ shim.result \in {"throws", "throwsNull", "hangs"}]_vars

\* C34: a pending callback that throws during the drain of the load event
\* does not stop the drain: the exception does not leave the handler, every
\* callback queued after the throwing one is called once, in queue order,
\* the queue is empty after the step and the iframe, when there is one,
\* holds the focus.
C34_ThrowDoesNotStopDrain ==
    [][(lastOp' = "load" /\ \E i \in 1..Len(onLoadCallbacks) :
                                 onLoadCallbacks[i] = "cbThrow") =>
          /\ ~threw'
          /\ Len(invoked') = Len(onLoadCallbacks)
          /\ \A i \in 1..Len(onLoadCallbacks) :
                onLoadCallbacks[i] = "cbThrow" =>
                   \A j \in (i + 1)..Len(onLoadCallbacks) :
                      invoked'[j] = onLoadCallbacks[j]
          /\ onLoadCallbacks' = <<>>
          /\ iframe' # Null => focused' = iframe']_vars

\* The load event drained a queue whose first callback threw: the callback
\* queued behind it was called, the queue is empty, the iframe is focused.
C34_Witness ==
    /\ lastOp = "load"
    /\ invoked = <<"cbThrow", "cbOk">>
    /\ onLoadCallbacks = <<>>
    /\ ~threw
    /\ iframe # Null
    /\ focused = iframe

\* C35 (as stated): a stored current_user comes with a stored auth_token:
\* no state holds a user record without a token.
C35_UserOnlyWithToken ==
    localStorage.current_user # NoItem => localStorage.auth_token # NoItem

\* C36 (as stated): a failed login leaves auth_token and current_user as
\* they were, returns a failure result that carries an error message, and
\* raises nothing to its caller.
C36_FailedLoginCarriesMessage ==
    [][(last'.fn = "login" /\ last'.phase = "done" /\ ~last'.returned.success) =>
          /\ localStorage' = localStorage
          /\ last'.returned.kind = "object"
          /\ last'.returned.error # Undefined]_vars

\* C36 (amended): a failed login leaves auth_token and current_user as they
\* were and returns, never raises, a failure result whose error is the
\* network-error text when the request or the parsing of its body failed
\* and otherwise the error field of the server's answer, which is undefined
\* when the answer has none.
C36_FailedLoginLeavesStorage ==
    [][(last'.fn = "login" /\ last'.phase = "done" /\ ~last'.returned.success) =>
          /\ localStorage' = localStorage
          /\ href' = href
          /\ last'.returned.kind = "object"
          /\ last'.returned.error =
                IF last'.response.kind = "rejects" \/ ~last'.response.body.json
                THEN NetworkErrorMsg
                ELSE last'.response.body.error]_vars

\* A login was refused by the server while a session was stored: the
\* session is still stored and the result carries the server's message.
C36_Witness ==
    /\ last.fn = "login"
    /\ last.phase = "done"
    /\ last.response.status = 401
    /\ last.returned = Result("object", FALSE, RefusedMsg)
    /\ localStorage.auth_token \in Tokens
    /\ localStorage.current_user # NoItem

\* C37: when logout ends, auth_token and current_user are removed and the
\* page is sent to the login page, whether no token was stored (no request
\* is made) or the logout request was answered, failed or was rejected;
\* nothing is raised.
C37_LogoutAlwaysClears ==
    [][(last'.fn = "logout" /\ last'.phase = "done") =>
          /\ localStorage' = [auth_token |-> NoItem, current_user |-> NoItem]
          /\ href' = LoginPage
          /\ last'.redirect
          /\ last'.returned = ReturnedUndefined
          /\ last'.response = NoResponse =>
                /\ ~HasToken(localStorage.auth_token)
                /\ ~last'.sent
                /\ pending' = pending]_vars

\* A logout whose request was rejected ended on the login page with the
\* storage empty.
C37_Witness ==
    /\ last.fn = "logout"
    /\ last.phase = "done"
    /\ last.response = Rejected
    /\ last.redirect
    /\ href = LoginPage
    /\ localStorage = [auth_token |-> NoItem, current_user |-> NoItem]

\* C38: apiRequest called with no token stored sends nothing, redirects to
\* the login page and returns null; resumed with a 401 answer it removes
\* auth_token, redirects to the login page and returns null; and an
\* apiRequest called right after that sends nothing.
C38_NoTokenNoRequest ==
    [][/\ (last'.fn = "apiRequest" /\ ~HasToken(localStorage.auth_token)
           /\ last'.response = NoResponse) =>
             /\ ~last'.sent
             /\ pending' = pending
             /\ last'.phase = "done"
             /\ href' = LoginPage
             /\ last'.returned = ReturnedNull
       /\ (last'.fn = "apiRequest" /\ last'.response.status = 401) =>
             /\ localStorage'.auth_token = NoItem
             /\ href' = LoginPage
             /\ last'.redirect
             /\ last'.returned = ReturnedNull
       /\ (last.fn = "apiRequest" /\ last.response.status = 401
           /\ last'.fn = "apiRequest" /\ last'.response = NoResponse) =>
             /\ ~last'.sent
             /\ pending' = pending]_vars

\* An apiRequest was called after a 401 answer had removed the token of a
\* session (the user record of the session is still stored): it sent
\* nothing, redirected and returned null.
C38_Witness ==
    /\ last.fn = "apiRequest"
    /\ last.phase = "done"
    /\ last.response = NoResponse
    /\ ~last.sent
    /\ last.returned = ReturnedNull
    /\ href = LoginPage
    /\ localStorage.auth_token = NoItem
    /\ localStorage.current_user # NoItem
====
